---- MODULE Spec2Model ----
(***************************************************************************)
(* Sliding-window and multi-scale test-time-augmented inference of         *)
(* semantic_segmentation/src/core/infer.py: slide_inference, inference     *)
(* and aug_inference.                                                      *)
(*                                                                         *)
(* Tensors are records [h, w, v] with v a function from 0-based pixel      *)
(* coordinates <<i, j>> to the sequence of channel values at that pixel.   *)
(* Channel values are exact rationals <<n, d>> in lowest terms with d > 0; *)
(* <<0, 0>> is the quotient 0/0 (NaN), which every operation propagates.   *)
(***************************************************************************)
EXTENDS Integers, Sequences, FiniteSets, TLC

\* ---------------------------------------------------------------- bounds
MaxH == 2
MaxW == 3
MaxCrop == 2
MaxStride == 2
MaxScales == 2
NumSeeds == 2

\* ------------------------------------------------------------- arithmetic
Max(a, b) == IF a >= b THEN a ELSE b
Min(a, b) == IF a <= b THEN a ELSE b
Abs(a) == IF a >= 0 THEN a ELSE -a

RECURSIVE GCD(_, _)
GCD(a, b) == IF b = 0 THEN a ELSE GCD(b, a % b)

NaN == <<0, 0>>
IsNaN(x) == x[2] = 0
Rat(n, d) == LET g == GCD(Abs(n), d) IN <<n \div g, d \div g>>
RInt(n) == <<n, 1>>
RAdd(x, y) ==
    IF IsNaN(x) \/ IsNaN(y) THEN NaN
    ELSE IF x[1] = 0 THEN y
    ELSE IF y[1] = 0 THEN x
    ELSE IF x[2] = y[2] THEN Rat(x[1] + y[1], x[2])
    ELSE LET g == GCD(x[2], y[2])
             m == y[2] \div g
             n == x[2] \div g
         IN  Rat(x[1] * m + y[1] * n, x[2] * m)
RNeg(x) == <<-x[1], x[2]>>
RSub(x, y) == RAdd(x, RNeg(y))
\* x * n / d, for integers n >= 0 and d > 0
RScale(x, n, d) ==
    IF IsNaN(x) THEN NaN
    ELSE IF n = 0 \/ x[1] = 0 THEN <<0, 1>>
    ELSE IF n = d THEN x
    ELSE LET g == GCD(n, d)
         IN  Rat(x[1] * (n \div g), x[2] * (d \div g))
\* x / k as numpy divides: 0 / 0 is NaN
RDivInt(x, k) == IF k = 0 THEN NaN ELSE RScale(x, 1, k)
\* x >= y for numbers that are not NaN
RGeq(x, y) == RSub(x, y)[1] >= 0

\* ---------------------------------------------------------------- tensors
\* f itself, with every value computed once (a function constructor alone is
\* evaluated anew at each application)
Eval(f) == f @@ << >>
\* (for the same reason a value used more than once is bound once, as the
\* element v of a singleton set: CHOOSE res \in {e(v) : v \in {value}} : TRUE)
Pixels(h, w) == (0 .. h - 1) \X (0 .. w - 1)
ZeroPixel(nch) == Eval([ch \in 1 .. nch |-> RInt(0)])
PixelAdd(a, b) == Eval([ch \in 1 .. Len(a) |-> RAdd(a[ch], b[ch])])

\* paddle.zeros([1, nch, h, w])
Zeros(h, w, nch) == [h |-> h, w |-> w, v |-> Eval([p \in Pixels(h, w) |-> ZeroPixel(nch)])]

\* t[:, :, h1:h2, w1:w2] for 0 <= h1 <= h2 <= t.h and 0 <= w1 <= w2 <= t.w
Crop(t, h1, h2, w1, w2) ==
    [h |-> h2 - h1, w |-> w2 - w1,
     v |-> Eval([p \in Pixels(h2 - h1, w2 - w1) |-> t.v[<<h1 + p[1], w1 + p[2]>>]])]

\* F.pad(t, [left, right, top, bottom]): zeros around t
Pad(t, left, right, top, bottom) ==
    LET hh == top + t.h + bottom
        ww == left + t.w + right
        nch == IF t.h * t.w = 0 THEN 0 ELSE Len(t.v[<<0, 0>>])
    IN  [h |-> hh, w |-> ww,
         v |-> Eval([p \in Pixels(hh, ww) |->
                  IF /\ top <= p[1] /\ p[1] < top + t.h
                     /\ left <= p[2] /\ p[2] < left + t.w
                  THEN t.v[<<p[1] - top, p[2] - left>>]
                  ELSE ZeroPixel(nch)])]

\* a + b for tensors of one shape
TAdd(a, b) == [h |-> a.h, w |-> a.w, v |-> Eval([p \in Pixels(a.h, a.w) |-> PixelAdd(a.v[p], b.v[p])])]

\* t[:, :, :, ::-1]
FlipW(t) == [h |-> t.h, w |-> t.w, v |-> Eval([p \in Pixels(t.h, t.w) |-> t.v[<<p[1], t.w - 1 - p[2]>>]])]

\* F.interpolate(t, (oh, ow), mode='bilinear', align_corners=False):
\* output index k reads the source coordinate max((k + 0.5) * in / out - 0.5, 0),
\* here num / den, between the source indices lo and hi
SrcNum(k, in, out) == Max(in * (2 * k + 1) - out, 0)
SrcLo(k, in, out) == SrcNum(k, in, out) \div (2 * out)
SrcHi(k, in, out) == Min(SrcLo(k, in, out) + 1, in - 1)
SrcLam(k, in, out) == SrcNum(k, in, out) % (2 * out)

Resize(t, oh, ow) ==
    LET nch == Len(t.v[<<0, 0>>])
        dh == 2 * oh
        dw == 2 * ow
        at(i, j, ch) ==
            LET lh == SrcLam(i, t.h, oh)
                lw == SrcLam(j, t.w, ow)
                i0 == SrcLo(i, t.h, oh)
                i1 == SrcHi(i, t.h, oh)
                j0 == SrcLo(j, t.w, ow)
                j1 == SrcHi(j, t.w, ow)
            IN  RAdd(RAdd(RScale(t.v[<<i0, j0>>][ch], (dh - lh) * (dw - lw), dh * dw),
                          RScale(t.v[<<i0, j1>>][ch], (dh - lh) * lw, dh * dw)),
                     RAdd(RScale(t.v[<<i1, j0>>][ch], lh * (dw - lw), dh * dw),
                          RScale(t.v[<<i1, j1>>][ch], lh * lw, dh * dw)))
    IN  [h |-> oh, w |-> ow,
         v |-> Eval([p \in Pixels(oh, ow) |-> Eval([ch \in 1 .. nch |-> at(p[1], p[2], ch)])])]

\* F.softmax(t, axis=1) over two classes is (s(d), s(-d)) with d the logit
\* difference and s the logistic function.  exp has no exact value here; s is
\* taken as 1/2 + d/64, which like the logistic function is increasing and has
\* s(d) + s(-d) = 1 (logit differences stay inside (-32, 32)).  The argmax of
\* one such map, and of the sum of two, is the argmax under the true softmax;
\* so is the argmax of a sum in which every map occurs the same number of
\* times as in a sum it is compared with.  Sums of more, different maps are
\* compared with nothing.
Softmax(t) ==
    [h |-> t.h, w |-> t.w,
     v |-> Eval([p \in Pixels(t.h, t.w) |->
              LET d == RSub(t.v[p][1], t.v[p][2])
              IN  <<RAdd(Rat(1, 2), RScale(d, 1, 64)), RSub(Rat(1, 2), RScale(d, 1, 64))>>])]

\* paddle.argmax(t, axis=1, keepdim=True): the first index of the maximum;
\* on NaN the index is whatever the build's comparison yields (nanidx)
Argmax(t, nanidx) ==
    [h |-> t.h, w |-> t.w,
     v |-> Eval([p \in Pixels(t.h, t.w) |->
              IF IsNaN(t.v[p][1]) \/ IsNaN(t.v[p][2]) THEN nanidx
              ELSE IF RGeq(t.v[p][1], t.v[p][2]) THEN 0 ELSE 1])]

\* the indices argmax may yield where t holds a NaN; 0 stands in while none is met
HasNaN(t) == \E p \in Pixels(t.h, t.w) : \E ch \in DOMAIN t.v[p] : IsNaN(t.v[p][ch])
NanChoices(t) == IF HasNaN(t) THEN 0 .. 1 ELSE {0}

\* the scalar 0 an accumulator starts from, and scalar-or-tensor + tensor
Scalar0 == [h |-> 0, w |-> 0, v |-> << >>]
BroadcastAdd(a, b) == IF a = Scalar0 THEN b ELSE TAdd(a, b)

\* ------------------------------------------------------------------ model
\* The model is an external callable: image tensor -> sequence of logit
\* tensors at the input's resolution.  Two deterministic two-class stubs, both
\* commuting with a horizontal flip of the input:
\*   "stub"    identity logits, a function of the pixel alone
\*   "context" class-0 logit grows with the sum of the whole input
ModelKinds == {"stub", "context"}
NumClasses == 2

RECURSIVE SumOver(_, _)
SumOver(t, ps) ==
    IF ps = {} THEN RInt(0)
    ELSE LET p == CHOOSE q \in ps : TRUE
         IN  RAdd(t.v[p][1], SumOver(t, ps \ {p}))

Model(kind, x) ==
    LET total == SumOver(x, Pixels(x.h, x.w))
        out(p) == CASE kind = "stub"    -> <<x.v[p][1], RSub(RInt(1), x.v[p][1])>>
                    [] kind = "context" -> <<RScale(total, 3, 1), RInt(2)>>
    IN  << [h |-> x.h, w |-> x.w, v |-> Eval([p \in Pixels(x.h, x.w) |-> out(p)])] >>

\* -------------------------------------------------------- slide_inference
\* mutation: the window count rounded down instead of up
NumWindowsFloor(size, crop, stride) ==
    IF size <= crop THEN 1
    ELSE Max(size - crop, 0) \div stride + 1

\* mutation: the window count taken from the stride alone
NumWindowsNoCrop(size, crop, stride) == (size + stride - 1) \div stride

\* rows / cols: the number of windows along one dimension
NumWindows(size, crop, stride) ==
    IF size <= crop THEN 1
    ELSE Max(size - crop + stride - 1, 0) \div stride + 1

\* mutation: the window index counted from one
WinStartOneBased(idx, stride) == (idx + 1) * stride

\* h1 = r * h_stride
WinStart(idx, stride) == idx * stride
\* h2 = min(h1 + h_crop, h_img)
WinEnd(start, crop, size) == Min(start + crop, size)
\* mutation: the start moved back one pixel too far
WinShiftOffByOne(end, crop) == Max(end - crop - 1, 0)

\* h1 = max(h2 - h_crop, 0)
WinShift(end, crop) == Max(end - crop, 0)

\* <<h1, h2, w1, w2>> of iteration (r, c); crop and stride are (w, h) pairs
Window(r, c, h, w, crop, stride) ==
    LET h2 == WinEnd(WinStart(r, stride[2]), crop[2], h)
        w2 == WinEnd(WinStart(c, stride[1]), crop[1], w)
    IN  <<WinShift(h2, crop[2]), h2, WinShift(w2, crop[1]), w2>>

InWindow(p, win) == win[1] <= p[1] /\ p[1] < win[2] /\ win[3] <= p[2] /\ p[2] < win[4]

\* count[:, :, h1:h2, w1:w2] += 1
CountAdd(cnt, win) == [p \in DOMAIN cnt |-> IF InWindow(p, win) THEN cnt[p] + 1 ELSE cnt[p]]

\* the state of the window loop before the first iteration
SlideZero(x) ==
    [count |-> [p \in Pixels(x.h, x.w) |-> 0],
     final_logit |-> Zeros(x.h, x.w, NumClasses),
     calls |-> << >>]

\* one iteration of the window loop
SlideStep(kind, x, crop, stride, acc, r, c) ==
    LET win == Window(r, c, x.h, x.w, crop, stride)
        img_crop == Crop(x, win[1], win[2], win[3], win[4])
        logit == Model(kind, img_crop)[1]
    IN  [count |-> CountAdd(acc.count, win),
         final_logit |-> TAdd(acc.final_logit,
                              Pad(logit, win[3], x.w - win[4], win[1], x.h - win[2])),
         calls |-> Append(acc.calls, win)]

\* mutation: the accumulated sum returned without the division
SlideDivideNone(logit, cnt) == logit

\* final_logit.numpy() / count
SlideDivide(logit, cnt) ==
    [h |-> logit.h, w |-> logit.w,
     v |-> Eval([p \in Pixels(logit.h, logit.w) |->
              Eval([ch \in 1 .. Len(logit.v[p]) |-> RDivInt(logit.v[p][ch], cnt[p])])])]

\* the loop from iteration n (row-major, 0-based) on
RECURSIVE SlideLoop(_, _, _, _, _, _, _, _)
SlideLoop(kind, x, crop, stride, acc, n, nrows, ncols) ==
    IF n >= nrows * ncols THEN acc
    ELSE CHOOSE res \in
             {SlideLoop(kind, x, crop, stride, next, n + 1, nrows, ncols) :
                 next \in {SlideStep(kind, x, crop, stride, acc, n \div ncols, n % ncols)}} : TRUE

\* mutation: cols computed from the image height
SlideInferenceColsFromH(kind, x, crop, stride) ==
    LET nrows == NumWindows(x.h, crop[2], stride[2])
        ncols == NumWindows(x.h, crop[1], stride[1])
    IN  CHOOSE res \in
            {[logit |-> SlideDivide(acc.final_logit, acc.count), calls |-> acc.calls] :
                acc \in {SlideLoop(kind, x, crop, stride, SlideZero(x), 0, nrows, ncols)}} : TRUE

\* slide_inference as one call: [logit, calls]
SlideInference(kind, x, crop, stride) ==
    LET nrows == NumWindows(x.h, crop[2], stride[2])
        ncols == NumWindows(x.w, crop[1], stride[1])
    IN  CHOOSE res \in
            {[logit |-> SlideDivide(acc.final_logit, acc.count), calls |-> acc.calls] :
                acc \in {SlideLoop(kind, x, crop, stride, SlideZero(x), 0, nrows, ncols)}} : TRUE

\* -------------------------------------------------------------- inference
None == << >>

\* lines 79-86: the prediction at ori_shape, or the raw logit
Finish(logit, ori, nanidx) ==
    IF ori # None
    THEN [kind |-> "pred", value |-> Argmax(Softmax(Resize(logit, ori[1], ori[2])), nanidx)]
    ELSE [kind |-> "logit", value |-> logit]

\* inference as one call: [out, calls]
Inference(kind, x, ori, is_slide, stride, crop, nanidx) ==
    IF ~is_slide
    THEN [out |-> Finish(Model(kind, x)[1], ori, nanidx),
          calls |-> << <<0, x.h, 0, x.w>> >>]
    ELSE CHOOSE res \in
             {[out |-> Finish(s.logit, ori, nanidx), calls |-> s.calls] :
                 s \in {SlideInference(kind, x, crop, stride)}} : TRUE

\* ---------------------------------------------------------- aug_inference
\* scale factors are rationals <<n, d>>; int(n_input * scale + 0.5)
ScaleDim(n_input, scale) == (2 * n_input * scale[1] + scale[2]) \div (2 * scale[2])

\* mutation: the shorter edge compared with and matched to crop_size[1]
AdjustSizeCropH(h, w, crop) ==
    IF Min(h, w) < crop[2]
    THEN IF h > w THEN <<(crop[2] * h) \div w, crop[2]>>
                  ELSE <<crop[2], (crop[2] * w) \div h>>
    ELSE <<h, w>>

\* lines 132-138: match the shorter edge to crop_size[0]
AdjustSize(h, w, crop) ==
    IF Min(h, w) < crop[1]
    THEN IF h > w THEN <<(crop[1] * h) \div w, crop[1]>>
                  ELSE <<crop[1], (crop[1] * w) \div h>>
    ELSE <<h, w>>

\* mutation: the logit of the flipped image is not flipped back (line 148)
AugPassNoFlipBack(kind, x, crop, stride, ori, flipped) ==
    CHOOSE res \in
        {[logit |-> Softmax(Resize(s.logit, ori[1], ori[2])), calls |-> s.calls] :
            s \in {SlideInference(kind, IF flipped THEN FlipW(x) ELSE x, crop, stride)}} : TRUE

\* lines 140-142 (flipped = FALSE) and 146-150 (flipped = TRUE): [logit, calls]
AugPass(kind, x, crop, stride, ori, flipped) ==
    CHOOSE res \in
        {[logit |-> Softmax(Resize(IF flipped THEN FlipW(s.logit) ELSE s.logit, ori[1], ori[2])),
          calls |-> s.calls] :
            s \in {SlideInference(kind, IF flipped THEN FlipW(x) ELSE x, crop, stride)}} : TRUE

\* mutation: the target size computed from the loop's current image
AugScaleStepCompound(kind, x, hin, win, crop, stride, ori, scale, acc) ==
    LET target == <<ScaleDim(x.h, scale), ScaleDim(x.w, scale)>>
        hw == AdjustSize(target[1], target[2], crop)
    IN  CHOOSE res \in
            {[img |-> ps.img, acc |-> BroadcastAdd(acc, ps.logit), calls |-> ps.calls,
              src |-> <<x.h, x.w>>, target |-> target] :
                ps \in {[img |-> x2] @@ AugPass(kind, x2, crop, stride, ori, FALSE) :
                           x2 \in {Resize(x, hw[1], hw[2])}}} : TRUE

\* lines 128-143: the body of the scale loop up to the flip test, for the
\* loop's image x, the input size (hin, win) and the accumulator acc
AugScaleStep(kind, x, hin, win, crop, stride, ori, scale, acc) ==
    LET target == <<ScaleDim(hin, scale), ScaleDim(win, scale)>>
        hw == AdjustSize(target[1], target[2], crop)
    IN  CHOOSE res \in
            {[img |-> ps.img, acc |-> BroadcastAdd(acc, ps.logit), calls |-> ps.calls,
              src |-> <<x.h, x.w>>, target |-> target] :
                ps \in {[img |-> x2] @@ AugPass(kind, x2, crop, stride, ori, FALSE) :
                           x2 \in {Resize(x, hw[1], hw[2])}}} : TRUE

\* lines 145-151: the flipped pass
AugFlipStep(kind, x, crop, stride, ori, acc) ==
    LET ps == AugPass(kind, x, crop, stride, ori, TRUE)
    IN  [acc |-> BroadcastAdd(acc, ps.logit), calls |-> ps.calls]

\* the scale loop from the i-th scale on: the final accumulator
RECURSIVE AugLoop(_, _, _, _, _, _, _, _, _, _, _)
AugLoop(kind, x, hin, win, crop, stride, ori, svals, flip, i, acc) ==
    IF i > Len(svals) THEN acc
    ELSE CHOOSE res \in
             {AugLoop(kind, s1.img, hin, win, crop, stride, ori, svals, flip, i + 1,
                      IF flip = TRUE
                      THEN AugFlipStep(kind, s1.img, crop, stride, ori, s1.acc).acc
                      ELSE s1.acc) :
                 s1 \in {AugScaleStep(kind, x, hin, win, crop, stride, ori, svals[i], acc)}} : TRUE

\* aug_inference as one call, for scales that are a tuple or list: the prediction
AugInference(kind, x, ori, stride, crop, svals, flip, nanidx) ==
    Argmax(AugLoop(kind, x, x.h, x.w, crop, stride, ori, svals, flip, 1, Scalar0), nanidx)

\* raise obj: only exception instances can be raised
Raise(obj) ==
    IF obj.class = "str"
    THEN [class |-> "TypeError", args |-> <<"exceptions must derive from BaseException">>]
    ELSE obj

\* the message string of line 124, formatted with type(scales)
ScalesMessage(type) ==
    [class |-> "str", args |-> <<"scales expects tuple/list type, but received ", type>>]

\* ------------------------------------------------------------------ state
VARIABLES
    model,            \* the model argument (a stub kind)
    img,              \* the img argument
    crop_size,        \* (w, h)
    stride_size,      \* (w, h)
    ori_shape,        \* (h, w)
    scales,           \* [type, value]: the scales argument
    flip_horizontal,
    pc,               \* position in the running call
    rows, cols,       \* slide_inference: window counts
    r, c,             \* slide_inference: loop indices
    count,            \* slide_inference: coverage count map
    final_logit,      \* slide_inference: logit accumulator, then the result
    calls,            \* windows the model has been invoked on, in order
    aug_img,          \* aug_inference: its img, rebound by every iteration
    h_input, w_input, \* aug_inference: line 126
    k,                \* aug_inference: index of the current scale
    aug_final_logit,  \* aug_inference: accumulator of probabilities
    passes,           \* aug_inference: the slide_inference passes run so far
    pred,             \* aug_inference: the returned prediction
    error,            \* the exception that ended the call, or None
    nan_class,        \* the index argmax yielded on NaN in this build, 0 if it met none
    inf_out           \* the result of inference on the same arguments

argVars == <<model, img, crop_size, stride_size, ori_shape, scales, flip_horizontal>>
slideVars == <<rows, cols, r, c, count, final_logit>>
augVars == <<aug_img, h_input, w_input, k, aug_final_logit, passes, pred, error, nan_class, inf_out>>
vars == <<argVars, pc, slideVars, calls, augVars>>

\* input images: one channel, values 0 / 1 on a diagonal pattern
Image(h, w, seed) ==
    [h |-> h, w |-> w,
     v |-> Eval([p \in Pixels(h, w) |-> <<RInt(IF (p[1] + p[2] + seed) % 3 = 0 THEN 1 ELSE 0)>>])]

Images == {Image(h, w, seed) : h \in 1 .. MaxH, w \in 1 .. MaxW, seed \in 0 .. NumSeeds - 1}
Sizes(n) == (1 .. n) \X (1 .. n)

\* a call slide_inference(model, img, crop_size, stride_size, 2) is about to run
InitSlide ==
    /\ model \in ModelKinds
    /\ img \in Images
    /\ crop_size \in Sizes(MaxCrop)
    /\ stride_size \in Sizes(MaxStride)
    /\ ori_shape = None /\ scales = None /\ flip_horizontal = FALSE
    /\ pc = "slide_start"
    /\ rows = 0 /\ cols = 0 /\ r = 0 /\ c = 0
    /\ count = << >>
    /\ final_logit = << >>
    /\ calls = << >>
    /\ aug_img = None /\ h_input = 0 /\ w_input = 0 /\ k = 0
    /\ aug_final_logit = Scalar0 /\ passes = << >> /\ pred = None
    /\ error = None /\ nan_class = 0 /\ inf_out = None

\* lines 23-33: window counts and the zeroed maps
SlideEnter ==
    /\ pc = "slide_start"
    /\ rows' = NumWindows(img.h, crop_size[2], stride_size[2])
    /\ cols' = NumWindows(img.w, crop_size[1], stride_size[1])
    /\ count' = SlideZero(img).count
    /\ final_logit' = SlideZero(img).final_logit
    /\ calls' = SlideZero(img).calls
    /\ r' = 0 /\ c' = 0
    /\ pc' = "slide_loop"
    /\ UNCHANGED <<argVars, augVars>>

\* lines 34-46: the body of the loop for (r, c), then the loop headers
SlideWindow ==
    /\ pc = "slide_loop"
    /\ r < rows /\ c < cols
    /\ \E acc \in {SlideStep(model, img, crop_size, stride_size,
                             [count |-> count, final_logit |-> final_logit, calls |-> calls],
                             r, c)} :
           /\ count' = acc.count
           /\ final_logit' = acc.final_logit
           /\ calls' = acc.calls
    /\ IF c + 1 < cols THEN r' = r /\ c' = c + 1
                       ELSE r' = r + 1 /\ c' = 0
    /\ UNCHANGED <<argVars, augVars, pc, rows, cols>>

\* lines 47-49: the division by the count map and the return
SlideReturn ==
    /\ pc = "slide_loop"
    /\ r >= rows
    /\ final_logit' = SlideDivide(final_logit, count)
    /\ pc' = "slide_done"
    /\ UNCHANGED <<argVars, augVars, rows, cols, r, c, count, calls>>

NextSlide == SlideEnter \/ SlideWindow \/ SlideReturn

SpecSlide == InitSlide /\ [][NextSlide]_vars

\* ------------------------------------------------- slide_inference: claims
h_img == img.h
w_img == img.w
w_crop == crop_size[1]
h_crop == crop_size[2]
w_stride == stride_size[1]
h_stride == stride_size[2]

CropFitsImage == h_crop <= h_img /\ w_crop <= w_img
StrideFitsImage == h_stride <= h_img /\ w_stride <= w_img
StrideWithinCrop == h_stride <= h_crop /\ w_stride <= w_crop
AllPixels == Pixels(h_img, w_img)
Covering(p) == {n \in 1 .. Len(calls) : InWindow(p, calls[n])}

\* the model's logit for window n at image pixel p, channel ch
WindowLogit(n, p, ch) ==
    LET win == calls[n]
    IN  Model(model, Crop(img, win[1], win[2], win[3], win[4]))[1]
            .v[<<p[1] - win[1], p[2] - win[3]>>][ch]

RECURSIVE WindowSum(_, _, _)
WindowSum(ns, p, ch) ==
    IF ns = {} THEN RInt(0)
    ELSE LET n == CHOOSE m \in ns : TRUE
         IN  RAdd(WindowLogit(n, p, ch), WindowSum(ns \ {n}, p, ch))

\* C1 as stated: with positive crop and stride, each at most the image size
\* in its dimension, every pixel's coverage count is >= 1 after the loop.
C1_AsStated ==
    (pc = "slide_done" /\ CropFitsImage /\ StrideFitsImage)
        => \A p \in AllPixels : count[p] >= 1

\* C1 amended: with positive crop at most the image size and positive stride
\* at most the crop size in each dimension, every pixel's coverage count is
\* >= 1 after the loop.
C1_Coverage ==
    (pc = "slide_done" /\ CropFitsImage /\ StrideWithinCrop)
        => \A p \in AllPixels : count[p] >= 1

C1_Witness ==
    /\ pc = "slide_done" /\ CropFitsImage /\ StrideWithinCrop
    /\ Len(calls) >= 2
    /\ \E p \in AllPixels : count[p] >= 2

\* C2: when crop_h >= H and crop_w >= W there is one row and one column, the
\* model is invoked once, on the whole image, every count is 1 and the result
\* is the first output of the model on the whole image.
C2_SingleWindow ==
    (pc = "slide_done" /\ h_crop >= h_img /\ w_crop >= w_img)
        => /\ rows = 1 /\ cols = 1
           /\ calls = << <<0, h_img, 0, w_img>> >>
           /\ \A p \in AllPixels : count[p] = 1
           /\ final_logit = Model(model, img)[1]

C2_Witness ==
    /\ pc = "slide_done" /\ h_crop > h_img /\ w_crop >= w_img
    /\ w_stride < w_img
    /\ Len(calls) = 1

\* C3: every processed window lies inside the image, is not empty, and in
\* each dimension spans the crop size when the image is at least that large
\* and the whole image otherwise.
C3_WindowGeometry ==
    \A n \in 1 .. Len(calls) :
        LET win == calls[n]
        IN  /\ 0 <= win[1] /\ win[1] < win[2] /\ win[2] <= h_img
            /\ 0 <= win[3] /\ win[3] < win[4] /\ win[4] <= w_img
            /\ win[2] - win[1] = (IF h_img >= h_crop THEN h_crop ELSE h_img)
            /\ win[4] - win[3] = (IF w_img >= w_crop THEN w_crop ELSE w_img)

\* a window that was moved back from its candidate start, and a whole-image one
C3_Witness ==
    /\ pc = "slide_done"
    /\ \E n \in 1 .. Len(calls) :
          /\ calls[n][3] # WinStart((n - 1) % cols, w_stride)
          /\ calls[n][4] - calls[n][3] = w_crop
    /\ h_img < h_crop

\* C7: while the loop runs the accumulator at p is the sum of the logits of
\* the processed windows containing p and the count is their number; the
\* returned value at p is that sum divided by that count.
C7_OverlapAverage ==
    /\ pc = "slide_loop" =>
          \A p \in AllPixels :
              /\ count[p] = Cardinality(Covering(p))
              /\ \A ch \in 1 .. NumClasses :
                    final_logit.v[p][ch] = WindowSum(Covering(p), p, ch)
    /\ pc = "slide_done" =>
          \A p \in AllPixels :
              /\ count[p] = Cardinality(Covering(p))
              /\ \A ch \in 1 .. NumClasses :
                    final_logit.v[p][ch] = RDivInt(WindowSum(Covering(p), p, ch), count[p])

\* a pixel under two windows with different logits, and a pixel under one
C7_Witness ==
    /\ pc = "slide_done"
    /\ \E p \in AllPixels :
          /\ Cardinality(Covering(p)) = 2
          /\ \E n1, n2 \in Covering(p) : WindowLogit(n1, p, 1) # WindowLogit(n2, p, 1)
          /\ final_logit.v[p][1] # WindowLogit(CHOOSE n \in Covering(p) : TRUE, p, 1)
    /\ \E p \in AllPixels : Cardinality(Covering(p)) = 1

\* C8: with 1 <= stride <= crop in both dimensions the windows leave no gap:
\* the first starts at the origin, each next one starts no later than its
\* predecessor in the row (column) ends, the last ends at the image edge;
\* so every count, the divisor of the final division, is >= 1 and no
\* returned value is 0/0.
C8_NoGap ==
    StrideWithinCrop =>
        /\ \A n \in 1 .. Len(calls) :
              /\ (n - 1) % cols = 0 => calls[n][3] = 0
              /\ (n - 1) \div cols = 0 => calls[n][1] = 0
              /\ (n - 1) % cols > 0 => calls[n][3] <= calls[n - 1][4]
              /\ (n - 1) \div cols > 0 => calls[n][1] <= calls[n - cols][2]
        /\ pc = "slide_done" =>
              /\ calls[Len(calls)][2] = h_img
              /\ calls[Len(calls)][4] = w_img
              /\ \A p \in AllPixels :
                    /\ count[p] >= 1
                    /\ \A ch \in 1 .. NumClasses : ~IsNaN(final_logit.v[p][ch])

C8_Witness ==
    /\ pc = "slide_done" /\ StrideWithinCrop
    /\ rows >= 2 /\ cols >= 2
    /\ calls[Len(calls)][3] < WinStart(cols - 1, w_stride)

\* ------------------------------------------- aug_inference, then inference
ScaleSet == {<<1, 2>>, <<1, 1>>, <<3, 2>>}
ScaleLists == UNION {[1 .. n -> ScaleSet] : n \in 1 .. MaxScales}
SequenceTypes == {"tuple", "list"}
DefaultScales == [type |-> "list", value |-> << <<1, 1>> >>]

\* a call aug_inference(model, img, ori_shape, ..., scales, flip_horizontal)
\* or a call inference(model, img, ori, ..., is_slide, ...) is about to run;
\* ori_shape is the shape of the largest image
InitAug ==
    /\ model \in ModelKinds
    /\ img \in Images
    /\ crop_size \in Sizes(MaxCrop)
    /\ stride_size \in Sizes(MaxStride)
    /\ ori_shape = <<MaxH, MaxW>>
    /\ \/ /\ pc = "aug_start"
          /\ \/ scales \in {[type |-> "list", value |-> q] : q \in ScaleLists}
             \/ scales = [type |-> "tuple", value |-> DefaultScales.value]
             \/ scales \in {[type |-> "str", value |-> "1.0"], [type |-> "float", value |-> "1.0"]}
          /\ flip_horizontal \in BOOLEAN
       \/ /\ pc = "inf_start"
          /\ scales = DefaultScales
          /\ flip_horizontal = TRUE
    /\ rows = 0 /\ cols = 0 /\ r = 0 /\ c = 0
    /\ count = << >>
    /\ final_logit = << >>
    /\ calls = << >>
    /\ aug_img = img /\ h_input = 0 /\ w_input = 0 /\ k = 0
    /\ aug_final_logit = Scalar0 /\ passes = << >> /\ pred = None
    /\ error = None /\ nan_class = 0 /\ inf_out = None

\* lines 123-126
AugEnter ==
    /\ pc = "aug_start"
    /\ IF scales.type \notin SequenceTypes
       THEN /\ error' = Raise(ScalesMessage(scales.type))
            /\ pc' = "aug_error"
            /\ UNCHANGED <<aug_final_logit, h_input, w_input, k>>
       ELSE /\ aug_final_logit' = Scalar0
            /\ h_input' = aug_img.h
            /\ w_input' = aug_img.w
            /\ k' = 1
            /\ pc' = "aug_scale"
            /\ error' = error
    /\ UNCHANGED <<argVars, slideVars, calls, aug_img, passes, pred, nan_class, inf_out>>

\* lines 127-143: one iteration of the scale loop up to the flip test
AugScale ==
    /\ pc = "aug_scale"
    /\ k <= Len(scales.value)
    /\ \E st \in {AugScaleStep(model, aug_img, h_input, w_input, crop_size, stride_size,
                               ori_shape, scales.value[k], aug_final_logit)} :
           /\ aug_img' = st.img
           /\ aug_final_logit' = st.acc
           /\ calls' = calls \o st.calls
           /\ passes' = Append(passes,
                  [scale |-> k, flipped |-> FALSE, src |-> st.src, target |-> st.target,
                   size |-> <<st.img.h, st.img.w>>, ncalls |-> Len(st.calls)])
    /\ IF flip_horizontal = TRUE
       THEN pc' = "aug_flip" /\ k' = k
       ELSE pc' = "aug_scale" /\ k' = k + 1
    /\ UNCHANGED <<argVars, slideVars, h_input, w_input, pred, error, nan_class, inf_out>>

\* lines 145-151: the flipped pass of the same iteration
AugFlip ==
    /\ pc = "aug_flip"
    /\ \E st \in {AugFlipStep(model, aug_img, crop_size, stride_size, ori_shape, aug_final_logit)} :
           /\ aug_final_logit' = st.acc
           /\ calls' = calls \o st.calls
           /\ passes' = Append(passes,
                  [scale |-> k, flipped |-> TRUE,
                   src |-> <<aug_img.h, aug_img.w>>, target |-> <<aug_img.h, aug_img.w>>,
                   size |-> <<aug_img.h, aug_img.w>>, ncalls |-> Len(st.calls)])
    /\ k' = k + 1
    /\ pc' = "aug_scale"
    /\ UNCHANGED <<argVars, slideVars, aug_img, h_input, w_input, pred, error, nan_class, inf_out>>

\* lines 153-154
AugArgmax ==
    /\ pc = "aug_scale"
    /\ k > Len(scales.value)
    /\ \E idx \in NanChoices(aug_final_logit) :
          /\ nan_class' = idx
          /\ pred' = Argmax(aug_final_logit, idx)
    /\ pc' = "aug_done"
    /\ UNCHANGED <<argVars, slideVars, calls, aug_img, h_input, w_input, k, aug_final_logit,
                   passes, error, inf_out>>

\* lines 70-86: inference(model, img, ori, transforms, is_slide, ...)
InferenceCall ==
    /\ pc = "inf_start"
    /\ \E is_slide \in BOOLEAN, ori \in {ori_shape, None} :
          \E raw \in {Inference(model, img, None, is_slide, stride_size, crop_size, 0)} :
              \E idx \in (IF ori = None THEN {0} ELSE NanChoices(raw.out.value)) :
                 /\ inf_out' = [is_slide |-> is_slide, ori |-> ori,
                                out |-> Finish(raw.out.value, ori, idx)]
                 /\ calls' = raw.calls
                 /\ nan_class' = idx
    /\ pc' = "inf_done"
    /\ UNCHANGED <<argVars, slideVars, aug_img, h_input, w_input, k, aug_final_logit,
                   passes, pred, error>>

NextAug == AugEnter \/ AugScale \/ AugFlip \/ AugArgmax \/ InferenceCall

SpecAug == InitAug /\ [][NextAug]_vars

\* --------------------------------------- aug_inference / inference: claims
One == <<1, 1>>
IdentityScaleCall == scales.value = <<One>> /\ flip_horizontal = FALSE
SlidePrediction == Inference(model, img, ori_shape, TRUE, stride_size, crop_size, nan_class)
TwoClasses(t) == \E p, q \in Pixels(t.h, t.w) : t.v[p] # t.v[q]

\* C4 as stated: with scales = [1.0] and no flip, aug_inference returns the
\* prediction of inference(is_slide=True) with the same ori_shape.
C4_AsStated ==
    (pc = "aug_done" /\ IdentityScaleCall) => pred = SlidePrediction.out.value

\* C4 amended: the same, slide_inference having run on the same windows of
\* the same image, provided neither side of the image is shorter than
\* crop_size[0], so that lines 132-138 leave the image size alone.
C4_IdentityScale ==
    (pc = "aug_done" /\ IdentityScaleCall /\ Min(img.h, img.w) >= crop_size[1])
        => \A sp \in {SlidePrediction} : pred = sp.out.value /\ calls = sp.calls

C4_Witness ==
    /\ pc = "aug_done" /\ IdentityScaleCall /\ Min(img.h, img.w) >= crop_size[1]
    /\ Len(calls) >= 2
    /\ TwoClasses(pred)
    /\ <<img.h, img.w>> # ori_shape

\* the model commutes with a horizontal flip / with cropping, on image x
FlipEquivariant(kind, x) == Model(kind, FlipW(x))[1] = FlipW(Model(kind, x)[1])
Windows(x) ==
    {win \in (0 .. x.h) \X (0 .. x.h) \X (0 .. x.w) \X (0 .. x.w) : win[1] < win[2] /\ win[3] < win[4]}
Pixelwise(kind, x) ==
    \A win \in Windows(x) :
        Model(kind, Crop(x, win[1], win[2], win[3], win[4]))[1]
            = Crop(Model(kind, x)[1], win[1], win[2], win[3], win[4])
UnflippedPrediction ==
    AugInference(model, img, ori_shape, stride_size, crop_size, scales.value, FALSE, nan_class)

\* C5 as stated: for a model that commutes with horizontal mirroring,
\* aug_inference with flip_horizontal=True returns the prediction it returns
\* with flip_horizontal=False.
C5_AsStated ==
    (pc = "aug_done" /\ flip_horizontal = TRUE /\ FlipEquivariant(model, img))
        => pred = UnflippedPrediction

\* C5 amended: the same for a model whose logits at a pixel are a function of
\* that pixel alone (an identity-logit stub) and 1 <= stride <= crop in both
\* dimensions.
C5_FlipSymmetry ==
    (pc = "aug_done" /\ flip_horizontal = TRUE /\ StrideWithinCrop /\ Pixelwise(model, img))
        => pred = UnflippedPrediction

\* the windows of pass n, and a pass whose windows are not mirror images of
\* its own windows
RECURSIVE CallsBefore(_)
CallsBefore(n) == IF n <= 1 THEN 0 ELSE CallsBefore(n - 1) + passes[n - 1].ncalls
PassWindows(n) == {calls[i] : i \in CallsBefore(n) + 1 .. CallsBefore(n) + passes[n].ncalls}
Mirrored(win, w) == <<win[1], win[2], w - win[4], w - win[3]>>
C5_Witness ==
    /\ pc = "aug_done" /\ flip_horizontal = TRUE /\ StrideWithinCrop /\ Pixelwise(model, img)
    /\ TwoClasses(pred)
    /\ \E n \in 1 .. Len(passes) :
          \E win \in PassWindows(n) : Mirrored(win, passes[n].size[2]) \notin PassWindows(n)

\* C6 as stated: scales that is neither list nor tuple ends the call in an
\* error that names the received type, before any model invocation, resize or
\* accumulation.
C6_AsStated ==
    pc = "aug_error"
        => /\ \E i \in DOMAIN error.args : error.args[i] = scales.type
           /\ Len(calls) = 0 /\ passes = << >>
           /\ aug_img = img /\ aug_final_logit = Scalar0

Unflipped == {n \in 1 .. Len(passes) : ~passes[n].flipped}

\* C9 as stated: each iteration computes its target height and width from the
\* height and width of the image the previous iteration left.
C9_AsStated ==
    \A n \in Unflipped :
        passes[n].target = <<ScaleDim(passes[n].src[1], scales.value[passes[n].scale]),
                             ScaleDim(passes[n].src[2], scales.value[passes[n].scale])>>

\* C9 amended: each iteration computes its target height and width from the
\* height and width of the original input (read once, before the loop); the
\* factors do not compound.  Only the pixels are resampled from the image
\* the previous iteration left.
C9_TargetFromInput ==
    \A n \in Unflipped :
        /\ passes[n].target = <<ScaleDim(img.h, scales.value[passes[n].scale]),
                                ScaleDim(img.w, scales.value[passes[n].scale])>>
        /\ passes[n].size = AdjustSize(passes[n].target[1], passes[n].target[2], crop_size)
        /\ passes[n].src = (IF n = 1 THEN <<img.h, img.w>> ELSE passes[n - 1].size)

C9_Witness ==
    /\ pc = "aug_done"
    /\ \E n \in Unflipped :
          /\ n > 1
          /\ passes[n].src # <<img.h, img.w>>
          /\ passes[n].target # <<ScaleDim(passes[n].src[1], scales.value[passes[n].scale]),
                                  ScaleDim(passes[n].src[2], scales.value[passes[n].scale])>>
          /\ passes[n].size = passes[n].target

\* C10 (the counts): the passes run so far are those of the scales in list
\* order, the unflipped before the flipped one; each invoked the model once
\* per window, rows x cols times for its image size; after the call there are
\* len(scales) x (1 + flip_horizontal) of them and the model was invoked the
\* sum of their rows x cols times.
PassesPerScale == IF flip_horizontal = TRUE THEN 2 ELSE 1
RECURSIVE SumCalls(_)
SumCalls(n) == IF n = 0 THEN 0 ELSE SumCalls(n - 1) + passes[n].ncalls
C10_Counts ==
    pc \in {"aug_scale", "aug_flip", "aug_done"} =>
        /\ \A n \in 1 .. Len(passes) :
              /\ passes[n].scale = (n - 1) \div PassesPerScale + 1
              /\ passes[n].flipped = ((n - 1) % PassesPerScale = 1)
              /\ passes[n].ncalls = NumWindows(passes[n].size[1], h_crop, h_stride)
                                      * NumWindows(passes[n].size[2], w_crop, w_stride)
        /\ Len(calls) = SumCalls(Len(passes))
        /\ pc = "aug_done" => Len(passes) = Len(scales.value) * PassesPerScale

\* steps the running call still has to take: the passes left and the argmax
StepsLeft ==
    CASE pc \in {"aug_done", "aug_error", "inf_done"} -> 0
      [] pc = "inf_start" -> 1
      [] pc = "aug_start" ->
            IF scales.type \in SequenceTypes THEN Len(scales.value) * PassesPerScale + 2 ELSE 1
      [] OTHER -> Len(scales.value) * PassesPerScale - Len(passes) + 1

\* C10: the counts hold throughout; every step of the call takes exactly one
\* of the steps left and their number never drops below zero, so the call
\* takes at most len(scales) x (1 + flip_horizontal) + 2 steps and cannot run
\* forever; it ends in an error only when scales is not a list or tuple, and
\* otherwise in the prediction after exactly len(scales) x (1 +
\* flip_horizontal) passes.
C10_Terminates ==
    /\ []C10_Counts
    /\ [][StepsLeft' = StepsLeft - 1]_vars
    /\ [](StepsLeft >= 0)
    /\ [](StepsLeft = 0 <=> pc \in {"aug_done", "aug_error", "inf_done"})
    /\ [](pc = "aug_error" => scales.type \notin SequenceTypes)

C10_Witness ==
    /\ pc = "aug_done" /\ flip_horizontal = TRUE
    /\ Len(scales.value) = 2
    /\ \E n, m \in 1 .. Len(passes) : passes[n].ncalls > 1 /\ passes[m].ncalls # passes[n].ncalls

====
